---------------------------- MODULE Spec2Model ----------------------------
(***************************************************************************)
(* Model of the taxi CO2 pipeline: load.py (raw partitions and the         *)
(* vehicle_emissions lookup), clean.py (Record Filter and the clean union  *)
(* tables), transform.py (Emission Enricher and the transformed union      *)
(* tables) and analysis.py (aggregates and extremal reports).              *)
(*                                                                         *)
(* Representation.                                                         *)
(*  - The database is a function from table names (strings, built exactly  *)
(*    as the f-strings of the source build them) to tables; a table that   *)
(*    does not exist is not in the domain.  A trip table is a bag of rows. *)
(*  - A nullable SQL value is a set: {} is NULL and {v} is the value v.    *)
(*  - Timestamps are seconds since 2015-01-01 00:00:00.                    *)
(*  - trip_distance is in whole miles and co2_grams_per_mile a multiple of *)
(*    200 g, all distances of the model being multiples of 5, so that      *)
(*    distance * factor / 1000.0 is an exact whole number of kilograms.    *)
(***************************************************************************)
EXTENDS Bags, FiniteSets, Integers, Sequences, TLC

VARIABLES
    db,                 \* trip tables of emissions.duckdb: name -> bag of rows
    vehicle_emissions,  \* the lookup table: [exists, cols, rows]
    pc,                 \* position of the running program ("idle" when none runs)
    todo,               \* discovered items the running main has still to process
    done,               \* cleaned_pairs (clean.main) / created (transform.main)
    status,             \* outcome of the last run of each program, and the
                        \* cleaned_pairs of the last run of clean.main
    loads,              \* number of load.py runs so far
    report              \* what the last analysis.main run computed

vars == <<db, vehicle_emissions, pc, todo, done, status, loads, report>>

----------------------------------------------------------------------------
(* Bounds of the model *)

NumYears == 2       \* YEARS is FirstYear .. FirstYear + NumYears - 1 (10 in the source)
MaxLoads == 2       \* load.py runs considered
MaxRawRows == 4     \* rows of the raw partition drawn in the row-level specifications

(* Program constants *)

MAX_TRIP_SECONDS == 86400
MAX_TRIP_MILES == 100
SECONDS_PER_HOUR == 3600
FirstYear == 2015

CABS == <<"yellow", "green">>
YEARS == [i \in 1..NumYears |-> FirstYear + i - 1]

----------------------------------------------------------------------------
(* SQL values *)

Null == {}
Some(v) == {v}
IsNull(x) == x = {}
Val(x) == CHOOSE v \in x : TRUE

(* Bags *)

RECURSIVE SumOver(_, _)
SumOver(S, B) ==
    IF S = {} THEN 0
    ELSE LET r == CHOOSE s \in S : TRUE IN B[r] + SumOver(S \ {r}, B)

\* SELECT ... FROM B WHERE P(row)
Where(B, P(_)) == [r \in {s \in DOMAIN B : P(s)} |-> B[r]]

\* SELECT F(row) FROM B
Select(B, F(_)) ==
    [e \in {F(r) : r \in DOMAIN B} |-> SumOver({r \in DOMAIN B : F(r) = e}, B)]

\* SELECT DISTINCT * FROM B
Distinct(B) == [r \in DOMAIN B |-> 1]

RECURSIVE UnionAll(_)
UnionAll(tables) ==
    IF tables = << >> THEN EmptyBag ELSE Head(tables) (+) UnionAll(Tail(tables))

----------------------------------------------------------------------------
(* Calendar: what DuckDB's date_diff and EXTRACT compute on a timestamp *)

IsLeap(y) == (y % 4 = 0 /\ y % 100 # 0) \/ y % 400 = 0
DaysInYear(y) == IF IsLeap(y) THEN 366 ELSE 365
DaysInMonth(y, m) ==
    IF m = 2 THEN (IF IsLeap(y) THEN 29 ELSE 28)
    ELSE IF m \in {4, 6, 9, 11} THEN 30 ELSE 31

RECURSIVE DaysBeforeYear(_)
DaysBeforeYear(y) ==
    IF y <= FirstYear THEN 0 ELSE DaysBeforeYear(y - 1) + DaysInYear(y - 1)

RECURSIVE DaysBeforeMonth(_, _)
DaysBeforeMonth(y, m) ==
    IF m <= 1 THEN 0 ELSE DaysBeforeMonth(y, m - 1) + DaysInMonth(y, m - 1)

\* the timestamp y-mo-d h:00:00
TS(y, mo, d, h) ==
    ((DaysBeforeYear(y) + DaysBeforeMonth(y, mo) + (d - 1)) * 24 + h) * 3600

DayNo(t) == t \div 86400
YearOf(t) ==
    CHOOSE y \in FirstYear..(FirstYear + 20) :
        DaysBeforeYear(y) <= DayNo(t) /\ DayNo(t) < DaysBeforeYear(y + 1)
DayOfYear(t) == DayNo(t) - DaysBeforeYear(YearOf(t)) + 1
MonthOf(t) ==
    CHOOSE m \in 1..12 :
        /\ DaysBeforeMonth(YearOf(t), m) < DayOfYear(t)
        /\ DayOfYear(t) <= DaysBeforeMonth(YearOf(t), m) + DaysInMonth(YearOf(t), m)
HourOf(t) == (t \div 3600) % 24
DowOf(t) == (DayNo(t) + 4) % 7          \* 2015-01-01 was a Thursday; Sun=0
IsoDow(t) == IF DowOf(t) = 0 THEN 7 ELSE DowOf(t)
PYear(y) == (y + (y \div 4) - (y \div 100) + (y \div 400)) % 7
WeeksInYear(y) == IF PYear(y) = 4 \/ PYear(y - 1) = 3 THEN 53 ELSE 52
WeekOf(t) ==
    LET w == (DayOfYear(t) - IsoDow(t) + 10) \div 7
    IN  IF w < 1 THEN WeeksInYear(YearOf(t) - 1)
        ELSE IF w > WeeksInYear(YearOf(t)) THEN 1 ELSE w

\* date_diff('second', a, b): NULL when either is NULL
date_diff(a, b) == IF IsNull(a) \/ IsNull(b) THEN Null ELSE Some(Val(b) - Val(a))

\* EXTRACT(part FROM ts)::INTEGER: NULL when ts is NULL
Extract(F(_), ts) == IF IsNull(ts) THEN Null ELSE Some(F(Val(ts)))

----------------------------------------------------------------------------
(* Table names *)

Str(y) == ToString(y)
startswith(s, prefix) == Len(s) >= Len(prefix) /\ SubSeq(s, 1, Len(prefix)) = prefix

raw_name(cab, y) == cab \o "_trips_" \o Str(y)
clean_name(cab, y) == raw_name(cab, y) \o "_clean"
transformed_name(cab, y) == cab \o "_trips_" \o Str(y) \o "_transformed"

table_exists(con, name) == name \in DOMAIN con

drop_table_if_exists(con, name) == [t \in DOMAIN con \ {name} |-> con[t]]
create_table_as(con, name, rows) ==
    [t \in DOMAIN con \cup {name} |-> IF t = name THEN rows ELSE con[t]]

\* the (cab, year) keys in the order of "for cab in CABS: for y in YEARS"
PartitionKeys ==
    [i \in 1..(Len(CABS) * NumYears) |->
        [cab |-> CABS[((i - 1) \div NumYears) + 1], year |-> YEARS[((i - 1) % NumYears) + 1]]]


----------------------------------------------------------------------------
(* load.py *)

TripRow(cab, vendor, pickup, dropoff, passengers, distance) ==
    [cab_type |-> cab, vendor_id |-> vendor,
     pickup_datetime |-> pickup, dropoff_datetime |-> dropoff,
     passenger_count |-> passengers, trip_distance |-> distance]

\* A ride of `distance` miles starting at `pickup` and lasting `seconds`.
Ride(cab, pickup, seconds, passengers, distance) ==
    TripRow(cab, 1, Some(pickup), Some(pickup + seconds), passengers, distance)

\* What the parquet files of one (cab, year) hold in the pipeline
\* specification: a ride recorded twice, a ride that every yearly file of the
\* cab repeats (a stray record), a ride of the year, a zero-distance record
\* and a record whose drop-off precedes its pick-up.
ParquetRows(cab, y) ==
    SetToBag({Ride(cab, TS(FirstYear, 1, 5, 8), 3600, Some(1), Some(10))})
    (+) SetToBag({Ride(cab, TS(FirstYear, 1, 5, 8), 3600, Some(1), Some(10)),
                  Ride(cab, TS(y, 3, 2, 17), 1800, Null, Some(20)),
                  Ride(cab, TS(y, 3, 2, 18), 600, Some(2), Some(0)),
                  Ride(cab, TS(y, 6, 1, 9), -60, Some(1), Some(5))})

\* The contents data/vehicle_emissions.csv may have: [cols, rows].
EmissionsRow(taxi, factor) == [taxi_type |-> taxi, co2_grams_per_mile |-> factor]
GoodCsv ==
    [cols |-> {"taxi_type", "co2_grams_per_mile"},
     rows |-> {EmissionsRow("yellow", Some(400)), EmissionsRow("green", Some(600))}]
\* no row for green, and the category written with a capital
YellowOnlyCsv ==
    [cols |-> {"taxi_type", "co2_grams_per_mile"},
     rows |-> {EmissionsRow("Yellow", Some(400))}]
\* no co2_grams_per_mile column
NoFactorColumnCsv ==
    [cols |-> {"vehicle_type", "mpg_city"}, rows |-> {EmissionsRow("", Null)}]
\* two rows for yellow
AmbiguousCsv ==
    [cols |-> {"taxi_type", "co2_grams_per_mile"},
     rows |-> {EmissionsRow("yellow", Some(400)), EmissionsRow("yellow", Some(600)),
               EmissionsRow("green", Some(600))}]
\* a row without a factor
NullFactorCsv ==
    [cols |-> {"taxi_type", "co2_grams_per_mile"},
     rows |-> {EmissionsRow("yellow", Null), EmissionsRow("green", Some(600))}]
\* no taxi_type column: one default factor, or no row at all
DefaultCsv == [cols |-> {"co2_grams_per_mile"}, rows |-> {EmissionsRow("", Some(400))}]
EmptyCsv == [cols |-> {"co2_grams_per_mile"}, rows |-> {}]

EmissionsCsvs == {GoodCsv, YellowOnlyCsv, NoFactorColumnCsv}
AllEmissionsCsvs ==
    EmissionsCsvs \cup {AmbiguousCsv, NullFactorCsv, DefaultCsv, EmptyCsv}

NoEmissions == [exists |-> FALSE, cols |-> {}, rows |-> {}]
EmissionsTable(csv) == [exists |-> TRUE, cols |-> csv.cols, rows |-> csv.rows]

\* load_year_cab: DROP TABLE IF EXISTS, then CREATE from the first month and
\* INSERT the others; `downloaded` is FALSE when read_parquet raises on the
\* first month, which leaves the table dropped.
load_year_cab(con, y, cab, downloaded) ==
    IF downloaded
    THEN create_table_as(drop_table_if_exists(con, raw_name(cab, y)),
                         raw_name(cab, y), ParquetRows(cab, y))
    ELSE drop_table_if_exists(con, raw_name(cab, y))

\* The loop of load_parquet_files over the first n partitions, the n-th
\* download failing when failing = n.
RECURSIVE load_partitions(_, _, _)
load_partitions(con, n, failing) ==
    IF n = 0 THEN con
    ELSE load_year_cab(load_partitions(con, n - 1, failing),
                       PartitionKeys[n].year, PartitionKeys[n].cab, n # failing)

\* load_parquet_files with every download succeeding: the lookup is replaced
\* when data/vehicle_emissions.csv exists (csv_present).
LoadAll(csv_present, csv) ==
    /\ pc = "idle"
    /\ loads < MaxLoads
    /\ loads' = loads + 1
    /\ db' = load_partitions(db, Len(PartitionKeys), 0)
    /\ vehicle_emissions' = IF csv_present THEN EmissionsTable(csv) ELSE vehicle_emissions
    /\ UNCHANGED <<pc, todo, done, status, report>>

\* load_parquet_files where the download of partition `failing` raises: the
\* exception ends the run, later partitions and the lookup are left alone.
LoadFails(failing) ==
    /\ pc = "idle"
    /\ loads < MaxLoads
    /\ loads' = loads + 1
    /\ db' = load_partitions(db, failing, failing)
    /\ UNCHANGED <<vehicle_emissions, pc, todo, done, status, report>>

----------------------------------------------------------------------------
(* clean.py *)

\* the WHERE clause of clean_one; a comparison with NULL is not true
clean_filter(r) ==
    LET duration_seconds == date_diff(r.pickup_datetime, r.dropoff_datetime)
    IN  /\ (IsNull(r.passenger_count) \/ Val(r.passenger_count) # 0)
        /\ ~IsNull(r.trip_distance) /\ Val(r.trip_distance) > 0
        /\ ~IsNull(r.trip_distance) /\ Val(r.trip_distance) <= MAX_TRIP_MILES
        /\ ~IsNull(duration_seconds) /\ Val(duration_seconds) <= MAX_TRIP_SECONDS

\* clean_sql with SELECT in place of SELECT DISTINCT
clean_sql_keeps_duplicates(src_rows) == Where(src_rows, clean_filter)

\* WITH base, filtered SELECT DISTINCT ... FROM filtered
clean_sql(src_rows) == Distinct(Where(src_rows, clean_filter))

\* clean_one without its DROP TABLE IF EXISTS: the rows are added to the
\* table of an earlier run
clean_one_without_drop(con, src, dst) ==
    IF table_exists(con, dst)
    THEN create_table_as(con, dst, con[dst] (+) clean_sql(con[src]))
    ELSE create_table_as(con, dst, clean_sql(con[src]))

clean_one(con, src, dst) ==
    create_table_as(drop_table_if_exists(con, dst), dst, clean_sql(con[src]))

\* discover_src_tables giving up at the first source table that is missing
discover_src_tables_until_missing(con) ==
    LET pair(k) == [src |-> raw_name(k.cab, k.year), dst |-> raw_name(k.cab, k.year) \o "_clean"]
        all == [i \in DOMAIN PartitionKeys |-> pair(PartitionKeys[i])]
        found == {n \in 0..Len(all) : \A i \in 1..n : table_exists(con, all[i].src)}
    IN  SubSeq(all, 1, CHOOSE n \in found : \A m \in found : m <= n)

discover_src_tables(con) ==
    LET pair(k) == [src |-> raw_name(k.cab, k.year), dst |-> raw_name(k.cab, k.year) \o "_clean"]
        all == [i \in DOMAIN PartitionKeys |-> pair(PartitionKeys[i])]
    IN  SelectSeq(all, LAMBDA p : table_exists(con, p.src))

\* make_union_table with UNION in place of UNION ALL
make_union_table_dedup(con, name, tables) ==
    LET dropped == drop_table_if_exists(con, name)
    IN  IF tables = << >> THEN dropped
        ELSE create_table_as(dropped, name,
                             Distinct(UnionAll([i \in DOMAIN tables |-> dropped[tables[i]]])))

\* " UNION ALL ".join(SELECT * FROM t for t in tables), read after the DROP
make_union_table(con, name, tables) ==
    LET dropped == drop_table_if_exists(con, name)
    IN  IF tables = << >> THEN dropped
        ELSE create_table_as(dropped, name,
                             UnionAll([i \in DOMAIN tables |-> dropped[tables[i]]]))

DstOf(pairs) == [i \in DOMAIN pairs |-> pairs[i].dst]

clean_build_unions(con, cleaned_pairs) ==
    LET yellow_clean == DstOf(SelectSeq(cleaned_pairs, LAMBDA p : startswith(p.src, "yellow_")))
        green_clean == DstOf(SelectSeq(cleaned_pairs, LAMBDA p : startswith(p.src, "green_")))
        c1 == make_union_table(con, "yellow_trips_clean_all", yellow_clean)
        c2 == make_union_table(c1, "green_trips_clean_all", green_clean)
    IN  make_union_table(c2, "all_trips_clean_2015_2024", yellow_clean \o green_clean)

\* clean.main: connect and discover the source tables
CleanBegin ==
    /\ pc = "idle"
    /\ pc' = "clean"
    /\ todo' = discover_src_tables(db)
    /\ done' = << >>
    /\ status' = [status EXCEPT !.clean = "running"]
    /\ UNCHANGED <<db, vehicle_emissions, loads, report>>

\* one iteration of the loop of clean.main: clean_one, then the two reports
\* (summarize_before_after and verify_clean only read), then the append
CleanOne ==
    /\ pc = "clean"
    /\ todo # << >>
    /\ db' = clean_one(db, Head(todo).src, Head(todo).dst)
    /\ done' = Append(done, Head(todo))
    /\ todo' = Tail(todo)
    /\ UNCHANGED <<vehicle_emissions, pc, status, loads, report>>

\* "if not cleaned_pairs: ... return"
CleanNoSources ==
    /\ pc = "clean"
    /\ todo = << >>
    /\ done = << >>
    /\ pc' = "idle"
    /\ status' = [status EXCEPT !.clean = "no_input", !.cleaned = done]
    /\ UNCHANGED <<db, vehicle_emissions, todo, done, loads, report>>

\* build_unions(con, cleaned_pairs) and the final summary
CleanBuildUnions ==
    /\ pc = "clean"
    /\ todo = << >>
    /\ done # << >>
    /\ db' = clean_build_unions(db, done)
    /\ pc' = "idle"
    /\ status' = [status EXCEPT !.clean = "complete", !.cleaned = done]
    /\ UNCHANGED <<vehicle_emissions, todo, done, loads, report>>

----------------------------------------------------------------------------
(* transform.py *)

\* str.lower() / SQL lower() on the strings of the model
lower(s) ==
    CASE s = "Yellow" -> "yellow"
      [] s = "Green" -> "green"
      [] OTHER -> s

get_emissions_cols(ve) == {lower(c) : c \in ve.cols}

\* The rows the CTE "ve" selects from before its LIMIT 1.
emissions_cte_rows(ve, taxi_type) ==
    IF "taxi_type" \in get_emissions_cols(ve)
    THEN {r \in ve.rows : lower(r.taxi_type) = taxi_type}
    ELSE ve.rows

\* LIMIT 1 without ORDER BY: no row of an empty input, else any one row.
Limit1(rows) == IF rows = {} THEN {<< >>} ELSE {<<r>> : r \in rows}

\* build_emissions_cte: raises when the column is missing, else the CTE,
\* given here by the relations it may evaluate to.
build_emissions_cte(ve, taxi_type) ==
    [raises |-> "co2_grams_per_mile" \notin get_emissions_cols(ve),
     ve |-> Limit1(emissions_cte_rows(ve, taxi_type))]

\* trip_co2_kgs without the division by 1000.0
trip_co2_grams(trip_distance, co2_grams_per_mile) ==
    IF IsNull(trip_distance) \/ IsNull(co2_grams_per_mile) THEN Null
    ELSE Some(Val(trip_distance) * Val(co2_grams_per_mile))

\* (b.trip_distance * ve.co2_grams_per_mile) / 1000.0
trip_co2_kgs(trip_distance, co2_grams_per_mile) ==
    IF IsNull(trip_distance) \/ IsNull(co2_grams_per_mile) THEN Null
    ELSE Some((Val(trip_distance) * Val(co2_grams_per_mile)) \div 1000)

\* CASE WHEN duration_seconds > 0 THEN trip_distance / (duration_seconds / 3600.0)
\* ELSE NULL END, kept as the fraction (trip_distance * 3600) / duration_seconds
avg_mph(trip_distance, duration_seconds) ==
    IF ~IsNull(duration_seconds) /\ Val(duration_seconds) > 0 /\ ~IsNull(trip_distance)
    THEN Some([num |-> Val(trip_distance) * SECONDS_PER_HOUR, den |-> Val(duration_seconds)])
    ELSE Null

\* one row of "FROM base b CROSS JOIN ve"
transform_row(b, v) ==
    [cab_type |-> b.cab_type,
     vendor_id |-> b.vendor_id,
     pickup_datetime |-> b.pickup_datetime,
     dropoff_datetime |-> b.dropoff_datetime,
     passenger_count |-> b.passenger_count,
     trip_distance |-> b.trip_distance,
     trip_co2_kgs |-> trip_co2_kgs(b.trip_distance, v.co2_grams_per_mile),
     avg_mph |-> avg_mph(b.trip_distance, date_diff(b.pickup_datetime, b.dropoff_datetime)),
     hour_of_day |-> Extract(HourOf, b.pickup_datetime),
     day_of_week |-> Extract(DowOf, b.pickup_datetime),
     week_of_year |-> Extract(WeekOf, b.pickup_datetime),
     month_of_year |-> Extract(MonthOf, b.pickup_datetime)]

\* the SELECT of transform_one: every row of base once for every row of ve
transform_sql(src_rows, ve) ==
    UnionAll([i \in DOMAIN ve |-> Select(src_rows, LAMBDA b : transform_row(b, ve[i]))])

\* the part of transform_one after its two existence checks, for one
\* evaluation `ve` of the CTE
transform_one(con, src_clean, dst_transformed, ve) ==
    create_table_as(drop_table_if_exists(con, dst_transformed), dst_transformed,
                    transform_sql(con[src_clean], ve))

discover_cleaned_tables(con) ==
    LET item(k) == [src |-> raw_name(k.cab, k.year) \o "_clean",
                    dst |-> raw_name(k.cab, k.year) \o "_transformed",
                    taxi |-> k.cab]
        all == [i \in DOMAIN PartitionKeys |-> item(PartitionKeys[i])]
    IN  SelectSeq(all, LAMBDA w : table_exists(con, w.src))

\* build_unions with "yellow_t" where the all-cabs view takes
\* "yellow_t + green_t"
transform_build_unions_all_from_yellow(con, transformed_tables) ==
    LET yellow_t == SelectSeq(transformed_tables, LAMBDA t : startswith(t, "yellow_"))
        green_t == SelectSeq(transformed_tables, LAMBDA t : startswith(t, "green_"))
        c1 == make_union_table(con, "yellow_trips_transformed_all", yellow_t)
        c2 == make_union_table(c1, "green_trips_transformed_all", green_t)
    IN  make_union_table(c2, "all_trips_transformed_2015_2024", yellow_t)

transform_build_unions(con, transformed_tables) ==
    LET yellow_t == SelectSeq(transformed_tables, LAMBDA t : startswith(t, "yellow_"))
        green_t == SelectSeq(transformed_tables, LAMBDA t : startswith(t, "green_"))
        c1 == make_union_table(con, "yellow_trips_transformed_all", yellow_t)
        c2 == make_union_table(c1, "green_trips_transformed_all", green_t)
    IN  make_union_table(c2, "all_trips_transformed_2015_2024", yellow_t \o green_t)

\* transform.main: connect and discover the cleaned tables
TransformBegin ==
    /\ pc = "idle"
    /\ pc' = "transform"
    /\ todo' = discover_cleaned_tables(db)
    /\ done' = << >>
    /\ status' = [status EXCEPT !.transform = "running"]
    /\ UNCHANGED <<db, vehicle_emissions, loads, report>>

\* "if not worklist: ... return"
TransformNoTables ==
    /\ pc = "transform"
    /\ todo = << >>
    /\ done = << >>
    /\ pc' = "idle"
    /\ status' = [status EXCEPT !.transform = "no_input"]
    /\ UNCHANGED <<db, vehicle_emissions, todo, done, loads, report>>

\* one iteration of the loop of transform.main in which transform_one returns
TransformOne ==
    /\ pc = "transform"
    /\ todo # << >>
    /\ vehicle_emissions.exists
    /\ table_exists(db, Head(todo).src)
    /\ ~build_emissions_cte(vehicle_emissions, Head(todo).taxi).raises
    /\ \E ve \in build_emissions_cte(vehicle_emissions, Head(todo).taxi).ve :
          db' = transform_one(db, Head(todo).src, Head(todo).dst, ve)
    /\ done' = Append(done, Head(todo).dst)
    /\ todo' = Tail(todo)
    /\ UNCHANGED <<vehicle_emissions, pc, status, loads, report>>

\* transform_one raises before its DROP TABLE: the lookup table or the
\* source table does not exist; main's except clause ends the run
TransformOneRaisesEarly ==
    /\ pc = "transform"
    /\ todo # << >>
    /\ ~vehicle_emissions.exists \/ ~table_exists(db, Head(todo).src)
    /\ pc' = "idle"
    /\ status' = [status EXCEPT !.transform = "error"]
    /\ UNCHANGED <<db, vehicle_emissions, todo, done, loads, report>>

\* transform_one raises in build_emissions_cte, after its DROP TABLE
TransformOneRaisesLate ==
    /\ pc = "transform"
    /\ todo # << >>
    /\ vehicle_emissions.exists
    /\ table_exists(db, Head(todo).src)
    /\ build_emissions_cte(vehicle_emissions, Head(todo).taxi).raises
    /\ db' = drop_table_if_exists(db, Head(todo).dst)
    /\ pc' = "idle"
    /\ status' = [status EXCEPT !.transform = "error"]
    /\ UNCHANGED <<vehicle_emissions, todo, done, loads, report>>

\* build_unions(con, created) and the final summary
TransformBuildUnions ==
    /\ pc = "transform"
    /\ todo = << >>
    /\ done # << >>
    /\ db' = transform_build_unions(db, done)
    /\ pc' = "idle"
    /\ status' = [status EXCEPT !.transform = "complete"]
    /\ UNCHANGED <<vehicle_emissions, todo, done, loads, report>>

----------------------------------------------------------------------------
(* The pipeline: load.py, clean.py and transform.py run one after another  *)
(* on one database, each any number of times, load.py MaxLoads times.      *)

NoReport == [ran |-> FALSE]

Init ==
    /\ db = << >>
    /\ vehicle_emissions = NoEmissions
    /\ pc = "idle"
    /\ todo = << >>
    /\ done = << >>
    /\ status = [clean |-> "none", transform |-> "none", cleaned |-> << >>]
    /\ loads = 0
    /\ report = NoReport

Load ==
    \/ \E csv \in EmissionsCsvs : LoadAll(TRUE, csv)
    \/ LoadAll(FALSE, GoodCsv)
    \/ \E failing \in DOMAIN PartitionKeys : LoadFails(failing)

CleanMain == CleanBegin \/ CleanOne \/ CleanNoSources \/ CleanBuildUnions

TransformMain ==
    \/ TransformBegin
    \/ TransformNoTables
    \/ TransformOne
    \/ TransformOneRaisesEarly
    \/ TransformOneRaisesLate
    \/ TransformBuildUnions

Next == Load \/ CleanMain \/ TransformMain

Spec == Init /\ [][Next]_vars

----------------------------------------------------------------------------
(* analysis.py *)

\* the sum of the values of a function
RECURSIVE SumFn(_)
SumFn(f) ==
    IF DOMAIN f = {} THEN 0
    ELSE LET r == CHOOSE s \in DOMAIN f : TRUE
         IN  f[r] + SumFn([t \in DOMAIN f \ {r} |-> f[t]])

\* SUM(F(row)) over the rows of a bag
SumBag(B, F(_)) == SumFn([r \in DOMAIN B |-> B[r] * F(r)])

\* ORDER BY of a set of integers
RECURSIVE Ascending(_)
Ascending(S) ==
    IF S = {} THEN << >>
    ELSE LET m == CHOOSE x \in S : \A y \in S : x <= y IN <<m>> \o Ascending(S \ {m})

\* the columns get_max_trip selects
max_trip_columns(r) ==
    [trip_co2_kgs |-> r.trip_co2_kgs, trip_distance |-> r.trip_distance,
     pickup_datetime |-> r.pickup_datetime, dropoff_datetime |-> r.dropoff_datetime,
     cab_type |-> r.cab_type, vendor_id |-> r.vendor_id]

\* get_max_trip: ORDER BY trip_co2_kgs DESC LIMIT 1 names no order among the
\* rows that share the largest value, so any of them may be the one returned.
\* The result is the set of frames the query may return (<< >> is the empty
\* frame).
get_max_trip(rows) ==
    LET valued == {r \in DOMAIN rows : ~IsNull(r.trip_co2_kgs)}
        largest == {r \in valued :
                       \A o \in valued : Val(o.trip_co2_kgs) <= Val(r.trip_co2_kgs)}
    IN  IF valued = {} THEN {<< >>} ELSE {<<max_trip_columns(r)>> : r \in largest}

\* avg_by_bucket without its "trip_co2_kgs IS NOT NULL": a row without a CO2
\* value counts as a row of 0 kg
avg_by_bucket_nulls_as_zero(rows, bucket_col) ==
    LET kept == Where(rows, LAMBDA r : ~IsNull(r[bucket_col]))
        buckets == Ascending({Val(r[bucket_col]) : r \in DOMAIN kept})
        group(b) == Where(kept, LAMBDA r : Val(r[bucket_col]) = b)
        kgs(r) == IF IsNull(r.trip_co2_kgs) THEN 0 ELSE Val(r.trip_co2_kgs)
    IN  [i \in DOMAIN buckets |->
            [bucket |-> buckets[i],
             avg_co2 |-> [num |-> SumBag(group(buckets[i]), kgs),
                          den |-> BagCardinality(group(buckets[i]))]]]

\* avg_by_bucket: one row per bucket in ascending bucket order; AVG is kept
\* as the fraction sum / count
avg_by_bucket(rows, bucket_col) ==
    LET kept == Where(rows, LAMBDA r : ~IsNull(r.trip_co2_kgs) /\ ~IsNull(r[bucket_col]))
        buckets == Ascending({Val(r[bucket_col]) : r \in DOMAIN kept})
        group(b) == Where(kept, LAMBDA r : Val(r[bucket_col]) = b)
    IN  [i \in DOMAIN buckets |->
            [bucket |-> buckets[i],
             avg_co2 |-> [num |-> SumBag(group(buckets[i]), LAMBDA r : Val(r.trip_co2_kgs)),
                          den |-> BagCardinality(group(buckets[i]))]]]

\* strftime("%Y-%m")
year_month_label(y, m) == Str(y) \o "-" \o (IF m < 10 THEN "0" ELSE "") \o Str(m)

\* monthly_totals_full: one row per calendar month that has a row with a CO2
\* value, in ascending order of ym = date_trunc('month', pickup_datetime)
monthly_totals_full(rows) ==
    LET kept == Where(rows, LAMBDA r : ~IsNull(r.trip_co2_kgs))
        ym_of(r) == TS(YearOf(Val(r.pickup_datetime)), MonthOf(Val(r.pickup_datetime)), 1, 0)
        yms == Ascending({ym_of(r) : r \in DOMAIN kept})
        group(ym) == Where(kept, LAMBDA r : ym_of(r) = ym)
    IN  [i \in DOMAIN yms |->
            [ym |-> yms[i], year |-> YearOf(yms[i]), month |-> MonthOf(yms[i]),
             total_co2 |-> SumBag(group(yms[i]), LAMBDA r : Val(r.trip_co2_kgs)),
             label |-> year_month_label(YearOf(yms[i]), MonthOf(yms[i]))]]

\* Series.idxmax / idxmin: the first position holding the largest / smallest
\* value, Less(a, b) being a < b
idxmax(df, col, Less(_, _)) ==
    CHOOSE i \in DOMAIN df :
        /\ \A j \in DOMAIN df : ~Less(df[i][col], df[j][col])
        /\ \A j \in 1..(i - 1) : Less(df[j][col], df[i][col])
idxmin(df, col, Less(_, _)) ==
    CHOOSE i \in DOMAIN df :
        /\ \A j \in DOMAIN df : ~Less(df[j][col], df[i][col])
        /\ \A j \in 1..(i - 1) : Less(df[i][col], df[j][col])

LessInt(a, b) == a < b
LessAvg(a, b) == a.num * b.den < b.num * a.den

NoRow == << >>

\* heaviest_lightest_month_totals: (None, None) for an empty frame
heaviest_lightest_month_totals(df) ==
    IF df = << >> THEN [heavy |-> NoRow, light |-> NoRow]
    ELSE [heavy |-> <<df[idxmax(df, "total_co2", LessInt)]>>,
          light |-> <<df[idxmin(df, "total_co2", LessInt)]>>]

\* lightest_heaviest_bucket taking the last of tied buckets instead of the
\* first
lightest_heaviest_bucket_last_tie(df) ==
    IF df = << >> THEN [light |-> NoRow, heavy |-> NoRow]
    ELSE LET lo == CHOOSE i \in DOMAIN df :
                     /\ \A j \in DOMAIN df : ~LessAvg(df[j].avg_co2, df[i].avg_co2)
                     /\ \A j \in (i + 1)..Len(df) : LessAvg(df[i].avg_co2, df[j].avg_co2)
             hi == CHOOSE i \in DOMAIN df :
                     /\ \A j \in DOMAIN df : ~LessAvg(df[i].avg_co2, df[j].avg_co2)
                     /\ \A j \in (i + 1)..Len(df) : LessAvg(df[j].avg_co2, df[i].avg_co2)
         IN  [light |-> <<df[lo]>>, heavy |-> <<df[hi]>>]

\* the "if not df.empty" blocks of analyze_cab: the lightest and heaviest
\* bucket of an average report
lightest_heaviest_bucket(df) ==
    IF df = << >> THEN [light |-> NoRow, heavy |-> NoRow]
    ELSE [light |-> <<df[idxmin(df, "avg_co2", LessAvg)]>>,
          heavy |-> <<df[idxmax(df, "avg_co2", LessAvg)]>>]

\* hour_df["report_hour"] = ((bucket % 24) + 1)
report_hour(bucket) == (bucket % 24) + 1

\* analyze_cab on an existing table, `top` being what get_max_trip returned
analyze_cab(rows, top) ==
    [missing |-> FALSE,
     top |-> top,
     hour_df |-> avg_by_bucket(rows, "hour_of_day"),
     hour |-> lightest_heaviest_bucket(avg_by_bucket(rows, "hour_of_day")),
     dow_df |-> avg_by_bucket(rows, "day_of_week"),
     dow |-> lightest_heaviest_bucket(avg_by_bucket(rows, "day_of_week")),
     wk_df |-> avg_by_bucket(rows, "week_of_year"),
     week |-> lightest_heaviest_bucket(avg_by_bucket(rows, "week_of_year")),
     mo_df |-> avg_by_bucket(rows, "month_of_year"),
     month |-> lightest_heaviest_bucket(avg_by_bucket(rows, "month_of_year")),
     mt |-> monthly_totals_full(rows),
     totals |-> heaviest_lightest_month_totals(monthly_totals_full(rows))]

\* analyze_cab when the table is missing: it returns None
NoCabReport == [missing |-> TRUE, mt |-> << >>]

\* prep of plot_monthly_10yr: the rows of 2015..2024 sorted by ym (the frame
\* is already in ym order); this is the series that is drawn
plot_monthly_series(df) == SelectSeq(df, LAMBDA e : e.year >= 2015 /\ e.year <= 2024)

\* the tables a run of analysis.main may return from get_max_trip
TopChoices(con, table) ==
    IF table_exists(con, table) THEN get_max_trip(con[table]) ELSE {<< >>}

CabReport(con, table, top) ==
    IF table_exists(con, table) THEN analyze_cab(con[table], top) ELSE NoCabReport

\* analysis.main: analyze_cab for YELLOW and GREEN, then the plots unless
\* both frames are None or empty
Analyze ==
    /\ pc = "idle"
    /\ \E ytop \in TopChoices(db, "yellow_trips_transformed_all"),
          gtop \in TopChoices(db, "green_trips_transformed_all") :
          LET y == CabReport(db, "yellow_trips_transformed_all", ytop)
              g == CabReport(db, "green_trips_transformed_all", gtop)
          IN  report' = [ran |-> TRUE, yellow |-> y, green |-> g,
                         plotted |-> y.mt # << >> \/ g.mt # << >>,
                         yellow_monthly |-> plot_monthly_series(y.mt),
                         green_monthly |-> plot_monthly_series(g.mt)]
    /\ UNCHANGED <<db, vehicle_emissions, pc, todo, done, status, loads>>

----------------------------------------------------------------------------
(* Row-level specifications: one raw partition with any rows of a pool.    *)

RECURSIVE BagsUpTo(_, _)
BagsUpTo(pool, n) ==
    IF n = 0 THEN {EmptyBag}
    ELSE LET smaller == BagsUpTo(pool, n - 1)
         IN  smaller \cup {b (+) SetToBag({r}) : b \in smaller, r \in pool}

\* Records around every threshold of the filter, one field at a time away
\* from a valid ride.
RawPool(cab) ==
    LET t == TS(FirstYear, 1, 5, 8)
    IN  { Ride(cab, t, 3600, Some(1), Some(10)),
          Ride(cab, t, 3600, Some(1), Some(0)),
          Ride(cab, t, 3600, Some(1), Some(100)),
          Ride(cab, t, 3600, Some(1), Some(150)),
          Ride(cab, t, 3600, Some(1), Null),
          Ride(cab, t, 100, Some(1), Some(0)),
          Ride(cab, t, 100, Some(1), Some(150)),
          Ride(cab, t, 0, Some(1), Some(10)),
          Ride(cab, t, -60, Some(1), Some(10)),
          Ride(cab, t, MAX_TRIP_SECONDS, Some(1), Some(10)),
          Ride(cab, t, MAX_TRIP_SECONDS + 1, Some(1), Some(10)),
          Ride(cab, t, 3600, Some(0), Some(10)),
          Ride(cab, t, 3600, Null, Some(10)),
          TripRow(cab, 1, Some(t), Null, Some(1), Some(10)) }

\* Rides of several months, years, hours and distances, two of them with
\* the same distance, one of no duration and one that the filter rejects.
TripPool(cab) ==
    { Ride(cab, TS(FirstYear, 1, 5, 8), 3600, Some(1), Some(10)),
      Ride(cab, TS(FirstYear, 1, 5, 8), 0, Some(1), Some(10)),
      Ride(cab, TS(FirstYear, 3, 2, 17), 1800, Null, Some(20)),
      Ride(cab, TS(FirstYear + 1, 3, 1, 9), 1800, Some(2), Some(5)),
      Ride(cab, TS(FirstYear + 1, 1, 3, 23), 7200, Some(1), Some(10)),
      Ride(cab, TS(FirstYear, 3, 2, 17), 1800, Some(1), Some(150)) }

RowsInit(cab, rows, ve) ==
    /\ db = (raw_name(cab, FirstYear) :> rows)
    /\ vehicle_emissions = ve
    /\ pc = "idle"
    /\ todo = << >>
    /\ done = << >>
    /\ status = [clean |-> "none", transform |-> "none", cleaned |-> << >>]
    /\ loads = 0
    /\ report = NoReport

\* clean.py on one raw partition
InitClean ==
    \/ Init
    \/ \E cab \in {CABS[i] : i \in DOMAIN CABS} :
       \E rows \in BagsUpTo(RawPool(cab), MaxRawRows) :
          RowsInit(cab, rows, NoEmissions)

SpecClean == InitClean /\ [][CleanMain]_vars

\* clean.py, transform.py and analysis.py on one raw partition and any lookup
InitRows ==
    \/ Init
    \/ \E cab \in {CABS[i] : i \in DOMAIN CABS} :
       \E rows \in BagsUpTo(TripPool(cab), MaxRawRows) :
       \E ve \in {NoEmissions} \cup {EmissionsTable(csv) : csv \in AllEmissionsCsvs} :
          RowsInit(cab, rows, ve)

NextRows == CleanMain \/ TransformMain \/ Analyze

SpecRows == InitRows /\ [][NextRows]_vars

\* two rows for yellow, one of them without a factor
MixedFactorCsv ==
    [cols |-> {"taxi_type", "co2_grams_per_mile"},
     rows |-> {EmissionsRow("yellow", Null), EmissionsRow("yellow", Some(400))}]

\* clean.py, transform.py and analysis.py on the first two raw partitions of
\* yellow, the first of half of MaxRawRows rows at most and the second of one
\* row at most, with a lookup that has a row for yellow
InitViews ==
    \E rows1 \in BagsUpTo(TripPool("yellow"), MaxRawRows \div 2) :
    \E rows2 \in BagsUpTo(TripPool("yellow"), 1) :
    \E csv \in {GoodCsv, MixedFactorCsv} :
        /\ db = (raw_name("yellow", FirstYear) :> rows1)
                    @@ (raw_name("yellow", FirstYear + 1) :> rows2)
        /\ vehicle_emissions = EmissionsTable(csv)
        /\ pc = "idle"
        /\ todo = << >>
        /\ done = << >>
        /\ status = [clean |-> "none", transform |-> "none", cleaned |-> << >>]
        /\ loads = 0
        /\ report = NoReport

NextViews ==
    \/ CleanBegin
    \/ CleanOne
    \/ CleanBuildUnions
    \/ TransformBegin
    \/ TransformOne
    \/ TransformBuildUnions
    \/ Analyze

SpecViews == InitViews /\ [][NextViews]_vars

----------------------------------------------------------------------------
(* Properties *)

KeySet == {PartitionKeys[i] : i \in DOMAIN PartitionKeys}
RawOf(k) == raw_name(k.cab, k.year)
CleanOf(k) == clean_name(k.cab, k.year)
TransformedOf(k) == transformed_name(k.cab, k.year)

DurationOf(r) == date_diff(r.pickup_datetime, r.dropoff_datetime)

\* C1: every row of every cleaned table has a duration_seconds (drop-off
\* minus pick-up) with 0 < duration_seconds <= 86400; a ride of zero or
\* negative duration is in no cleaned table.
C1_DurationWithinDay ==
    \A k \in KeySet :
        CleanOf(k) \in DOMAIN db =>
            \A r \in DOMAIN db[CleanOf(k)] :
                /\ ~IsNull(DurationOf(r))
                /\ 0 < Val(DurationOf(r))
                /\ Val(DurationOf(r)) <= 86400

\* C2: an enriched table has as many rows as the cleaned table it was made
\* from, whatever the vehicle_emissions lookup holds.
C2_EnrichmentConserves ==
    \A k \in KeySet :
        (TransformedOf(k) \in DOMAIN db /\ CleanOf(k) \in DOMAIN db) =>
            BagCardinality(db[TransformedOf(k)]) = BagCardinality(db[CleanOf(k)])

\* the lookup exists, has the factor column, and has no row for the category
ResolvesToNoRow(ve, cab) ==
    /\ ve.exists
    /\ "co2_grams_per_mile" \in ve.cols
    /\ IF "taxi_type" \in ve.cols
       THEN \A r \in ve.rows : lower(r.taxi_type) # cab
       ELSE ve.rows = {}

\* C3: when the lookup resolves to no row for a cab category, transform_one
\* raises and the run is aborted: there is no enriched table of that
\* category, no union view built from one, and the run does not complete.
C3_NoFactorIsFatal ==
    \A k \in KeySet :
        (ResolvesToNoRow(vehicle_emissions, k.cab) /\ CleanOf(k) \in DOMAIN db) =>
            /\ TransformedOf(k) \notin DOMAIN db
            /\ (k.cab \o "_trips_transformed_all") \notin DOMAIN db
            /\ status.transform \in {"none", "running", "error"}

\* the cyclical months in which the rows of a view fall
MonthsOf(rows) == {Val(r.month_of_year) : r \in DOMAIN rows}

CabLabels == {"yellow", "green"}
ViewOf(label) == label \o "_trips_transformed_all"
MonthlySeries(label) ==
    IF label = "yellow" THEN report.yellow_monthly ELSE report.green_monthly

\* an analysis.main run has reported on the view of this cab as it is now,
\* the view having rows and every row of it a CO2 value
Reported(label) ==
    /\ report.ran
    /\ ViewOf(label) \in DOMAIN db
    /\ ~report[label].missing
    /\ report[label].mt = monthly_totals_full(db[ViewOf(label)])
    /\ db[ViewOf(label)] # EmptyBag
    /\ \A r \in DOMAIN db[ViewOf(label)] : ~IsNull(r.trip_co2_kgs)

\* C4: for a view whose trips fall in the months M only, the cyclical month
\* average report has exactly |M| entries, and the monthly-total report used
\* for the plot has an entry for each of the twelve months, with total 0 for
\* every month outside M.
C4_ZeroFilledMonthlyTotals ==
    \A label \in CabLabels :
        Reported(label) =>
            LET M == MonthsOf(db[ViewOf(label)])
            IN  /\ Len(report[label].mo_df) = Cardinality(M)
                /\ \A m \in 1..12 :
                      \E i \in DOMAIN MonthlySeries(label) :
                          /\ MonthlySeries(label)[i].month = m
                          /\ m \notin M => MonthlySeries(label)[i].total_co2 = 0

\* the step that ends a run of clean.main / of transform.main without error
CleanRunEnds == pc = "clean" /\ pc' = "idle"
TransformRunEnds == pc = "transform" /\ pc' = "idle" /\ status'.transform # "error"

CleanListOf(pairs, prefix) == DstOf(SelectSeq(pairs, LAMBDA p : startswith(p.src, prefix)))
TransformedListOf(tables, prefix) == SelectSeq(tables, LAMBDA t : startswith(t, prefix))

\* C5: after a run of clean.main or transform.main, whatever the database
\* held before, a view whose list of contributing partitions in this run is
\* empty does not exist.
C5_EmptyViewIsAbsent ==
    [][ /\ CleanRunEnds =>
            /\ CleanListOf(done', "yellow_") = << >> => "yellow_trips_clean_all" \notin DOMAIN db'
            /\ CleanListOf(done', "green_") = << >> => "green_trips_clean_all" \notin DOMAIN db'
            /\ done' = << >> => "all_trips_clean_2015_2024" \notin DOMAIN db'
        /\ TransformRunEnds =>
            /\ TransformedListOf(done', "yellow_") = << >> =>
                  "yellow_trips_transformed_all" \notin DOMAIN db'
            /\ TransformedListOf(done', "green_") = << >> =>
                  "green_trips_transformed_all" \notin DOMAIN db'
            /\ done' = << >> => "all_trips_transformed_2015_2024" \notin DOMAIN db'
      ]_vars

\* the filter as the WHERE clause of clean_one states it (the lower bound on
\* the duration is the subject of C1)
PassesFilter(r) ==
    /\ r.passenger_count = Null \/ r.passenger_count # Some(0)
    /\ r.trip_distance # Null
    /\ \E d \in r.trip_distance : 0 < d /\ d <= 100
    /\ \E s \in DurationOf(r) : s <= 86400

\* C6: the cleaned table holds exactly one row for each distinct six-field
\* tuple of the raw partition that passes the filter, and every row of it has
\* 0 < trip_distance <= 100 and a passenger_count that is null or non-zero.
C6_OneRowPerPassingTuple ==
    \A k \in KeySet :
        (CleanOf(k) \in DOMAIN db /\ RawOf(k) \in DOMAIN db) =>
            /\ \A r \in DOMAIN db[RawOf(k)] :
                  PassesFilter(r) => CopiesIn(r, db[CleanOf(k)]) = 1
            /\ \A r \in DOMAIN db[CleanOf(k)] :
                  /\ db[CleanOf(k)][r] = 1
                  /\ r \in DOMAIN db[RawOf(k)]
                  /\ PassesFilter(r)
                  /\ \E d \in r.trip_distance : 0 < d /\ d <= 100
                  /\ r.passenger_count # Some(0)

\* C6 witness: two identical valid rows, a zero-distance row and a 150-mile
\* row were cleaned into exactly one row.
C6_Witness ==
    \E k \in KeySet :
        /\ CleanOf(k) \in DOMAIN db
        /\ RawOf(k) \in DOMAIN db
        /\ LET t == TS(FirstYear, 1, 5, 8)
               valid == Ride(k.cab, t, 3600, Some(1), Some(10))
           IN  db[RawOf(k)] = (valid :> 2) @@ (Ride(k.cab, t, 100, Some(1), Some(0)) :> 1)
                                  @@ (Ride(k.cab, t, 100, Some(1), Some(150)) :> 1)
        /\ BagCardinality(db[CleanOf(k)]) = 1

\* the number of copies of r in the tables of a list, together
CopiesInAll(r, tables, con) == SumFn([i \in DOMAIN tables |-> CopiesIn(r, con[tables[i]])])

RowsOfAll(tables, con) == UNION {DOMAIN con[tables[i]] : i \in DOMAIN tables}

\* the view is the multiset sum of the tables of the list
IsSumOf(view, tables, con) ==
    /\ view \in DOMAIN con
    /\ DOMAIN con[view] = RowsOfAll(tables, con)
    /\ \A r \in DOMAIN con[view] : con[view][r] = CopiesInAll(r, tables, con)

\* the three views of one stage, built from the lists y and g
ViewsAreSums(yview, gview, allview, y, g, con) ==
    /\ y # << >> => IsSumOf(yview, y, con)
    /\ g # << >> => IsSumOf(gview, g, con)
    /\ IsSumOf(allview, y \o g, con)
    /\ (y # << >> /\ g # << >>) => con[allview] = con[yview] (+) con[gview]
    /\ (y # << >> /\ g = << >>) => con[allview] = con[yview]
    /\ (y = << >> /\ g # << >>) => con[allview] = con[gview]
    /\ \A n \in 1..(Len(y \o g) - 1) :
          \A r \in DOMAIN con[allview] :
              con[allview][r] = CopiesInAll(r, SubSeq(y \o g, 1, n), con)
                                + CopiesInAll(r, SubSeq(y \o g, n + 1, Len(y \o g)), con)

\* C7: every union view that build_unions builds is the multiset sum of its
\* contributing partitions, nothing being deduplicated across partitions: the
\* all-cabs view is the yellow view plus the green view, and the view of a
\* list is the sum of the views of any split of the list in two.
C7_UnionIsConcatenation ==
    [][ /\ (CleanRunEnds /\ done # << >>) =>
            ViewsAreSums("yellow_trips_clean_all", "green_trips_clean_all",
                         "all_trips_clean_2015_2024",
                         CleanListOf(done, "yellow_"), CleanListOf(done, "green_"), db')
        /\ (TransformRunEnds /\ done # << >>) =>
            ViewsAreSums("yellow_trips_transformed_all", "green_trips_transformed_all",
                         "all_trips_transformed_2015_2024",
                         TransformedListOf(done, "yellow_"),
                         TransformedListOf(done, "green_"), db')
      ]_vars

\* C7 witness: views built from three partitions or more, yellow and green,
\* in which a row that two partitions share is kept twice.
C7_Witness ==
    /\ pc = "idle"
    /\ status.transform = "complete"
    /\ Len(done) >= 3
    /\ "yellow_trips_transformed_all" \in DOMAIN db
    /\ "green_trips_transformed_all" \in DOMAIN db
    /\ \E r \in DOMAIN db["all_trips_clean_2015_2024"] :
          db["all_trips_clean_2015_2024"][r] >= 2
    /\ \E r \in DOMAIN db["all_trips_transformed_2015_2024"] :
          db["all_trips_transformed_2015_2024"][r] >= 2

\* C8: a missing raw partition never aborts the cleaning run: when clean.main
\* ends, every raw partition that exists was cleaned in this run, its cleaned
\* table exists, and the view of its cab and the all-cabs view exist and hold
\* its cleaned rows; the run ends as complete, or as no_input when no raw
\* partition exists at all.
C8_MissingPartitionsAreSkipped ==
    [][ CleanRunEnds =>
            /\ status'.clean = (IF \E k \in KeySet : RawOf(k) \in DOMAIN db'
                                THEN "complete" ELSE "no_input")
            /\ \A k \in KeySet :
                  RawOf(k) \in DOMAIN db' =>
                      /\ \E i \in DOMAIN done' : done'[i].src = RawOf(k)
                      /\ CleanOf(k) \in DOMAIN db'
                      /\ (k.cab \o "_trips_clean_all") \in DOMAIN db'
                      /\ "all_trips_clean_2015_2024" \in DOMAIN db'
                      /\ \A r \in DOMAIN db'[CleanOf(k)] :
                            /\ r \in DOMAIN db'[k.cab \o "_trips_clean_all"]
                            /\ r \in DOMAIN db'["all_trips_clean_2015_2024"]
      ]_vars

\* C8 witness: a cleaning run has completed although the first partition in
\* discovery order is missing and a later one exists.
C8_Witness ==
    /\ pc = "idle"
    /\ status.clean = "complete"
    /\ status.transform = "none"
    /\ RawOf(PartitionKeys[1]) \notin DOMAIN db
    /\ CleanOf(PartitionKeys[1]) \notin DOMAIN db
    /\ \E i \in DOMAIN PartitionKeys :
          /\ i > 1
          /\ RawOf(PartitionKeys[i]) \in DOMAIN db
          /\ CleanOf(PartitionKeys[i]) \in DOMAIN db
          /\ \E j \in DOMAIN done : done[j].dst = CleanOf(PartitionKeys[i])

\* the six CleanTrip fields of an enriched row
CleanFields(e) ==
    TripRow(e.cab_type, e.vendor_id, e.pickup_datetime, e.dropoff_datetime,
            e.passenger_count, e.trip_distance)

\* the factors the lookup holds for a cab category
FactorsFor(ve, cab) ==
    IF "taxi_type" \in ve.cols
    THEN {r.co2_grams_per_mile : r \in {x \in ve.rows : lower(x.taxi_type) = cab}}
    ELSE {r.co2_grams_per_mile : r \in ve.rows}

\* C9: within one enriched partition one factor f, resolved from the lookup
\* for the partition's cab category, is used for every row:
\* trip_co2_kgs * 1000 = trip_distance * f (null when f is null), and the six
\* CleanTrip fields of every row are those of a row of the cleaned table.
C9_OneFactorPerPartition ==
    \A k \in KeySet :
        (TransformedOf(k) \in DOMAIN db /\ CleanOf(k) \in DOMAIN db) =>
            \/ db[TransformedOf(k)] = EmptyBag
            \/ \E f \in FactorsFor(vehicle_emissions, k.cab) :
                  \A e \in DOMAIN db[TransformedOf(k)] :
                      /\ IF f = Null THEN e.trip_co2_kgs = Null
                         ELSE \E c \in e.trip_co2_kgs :
                                  c * 1000 = Val(e.trip_distance) * Val(f)
                      /\ db[TransformedOf(k)][e] = CopiesIn(CleanFields(e), db[CleanOf(k)])
                      /\ db[TransformedOf(k)][e] >= 1

\* C9 witness: a partition of several rows enriched with the factor 400, a
\* 10-mile ride of it carrying 4 kg.
C9_Witness ==
    \E k \in KeySet :
        /\ TransformedOf(k) \in DOMAIN db
        /\ FactorsFor(vehicle_emissions, k.cab) = {Some(400)}
        /\ Cardinality(DOMAIN db[TransformedOf(k)]) >= 3
        /\ \E e \in DOMAIN db[TransformedOf(k)] :
              e.trip_distance = Some(10) /\ e.trip_co2_kgs = Some(4)

\* the frame returned for a view is one row carrying the largest non-null
\* trip_co2_kgs of the view, and no row when the view has no such value
IsMaxTripOf(top, rows) ==
    IF \A r \in DOMAIN rows : r.trip_co2_kgs = Null THEN top = << >>
    ELSE /\ Len(top) = 1
         /\ \E r \in DOMAIN rows : r.trip_co2_kgs = top[1].trip_co2_kgs
         /\ \A r \in DOMAIN rows : \A c \in r.trip_co2_kgs : c <= Val(top[1].trip_co2_kgs)

\* C10: get_max_trip returns one row carrying the largest non-null
\* trip_co2_kgs of the view (no row when there is none), and the row returned
\* is a function of the view: two runs on the same view return the same row.
C10_MaxTripIsDeterministic ==
    [][ \A label \in CabLabels :
            (report'.ran /\ ViewOf(label) \in DOMAIN db /\ db' = db /\ report' # report) =>
                /\ ~report'[label].missing
                /\ IsMaxTripOf(report'[label].top, db[ViewOf(label)])
                /\ (report.ran /\ ~report[label].missing
                        /\ IsMaxTripOf(report[label].top, db[ViewOf(label)]))
                    => report'[label].top = report[label].top
      ]_vars

\* the four average reports of analyze_cab and the column each is grouped by
BucketFrames ==
    {<<"hour_df", "hour_of_day">>, <<"dow_df", "day_of_week">>,
     <<"wk_df", "week_of_year">>, <<"mo_df", "month_of_year">>}

\* the rows of a table that count for bucket b: the bucket column is b and the
\* CO2 value is not NULL
CountedRows(rows, col, b) ==
    {r \in DOMAIN rows : r[col] = Some(b) /\ ~IsNull(r.trip_co2_kgs)}

\* df holds one entry for every bucket that has a counted row and no other
\* entry, and the entry of a bucket is the mean of the CO2 values of its
\* counted rows (sum of the values = mean * number of rows)
IsAverageReportOf(df, rows, col) ==
    LET values == {Val(r[col]) : r \in {s \in DOMAIN rows : ~IsNull(s[col])}}
    IN  /\ \A i, j \in DOMAIN df : df[i].bucket = df[j].bucket => i = j
        /\ {df[i].bucket : i \in DOMAIN df}
               = {b \in values : CountedRows(rows, col, b) # {}}
        /\ \A i \in DOMAIN df :
              LET counted == CountedRows(rows, col, df[i].bucket)
                  n == SumOver(counted, rows)
                  total == SumFn([r \in counted |-> rows[r] * Val(r.trip_co2_kgs)])
              IN  /\ df[i].avg_co2.den > 0
                  /\ df[i].avg_co2.num * n = total * df[i].avg_co2.den

\* C11: avg_by_bucket returns exactly one entry for every distinct non-null
\* bucket value that has a row with a non-null trip_co2_kgs, its value the
\* mean of trip_co2_kgs over those rows only; rows with a NULL bucket or a
\* NULL trip_co2_kgs contribute to no entry, and an empty or all-NULL view
\* yields an empty report, not an error.  Stated of every report that a run
\* of analysis.main writes from a view that exists.
C11_AverageOverCountedRows ==
    [][report' # report =>
          \A label \in CabLabels :
              ViewOf(label) \in DOMAIN db =>
                  /\ ~report'[label].missing
                  /\ \A f \in BucketFrames :
                        IsAverageReportOf(report'[label][f[1]], db[ViewOf(label)], f[2])]_vars

\* a report of a view whose only month holds a trip with a CO2 value and a
\* trip without one
C11_Witness ==
    /\ report.ran
    /\ ~report.yellow.missing
    /\ ViewOf("yellow") \in DOMAIN db
    /\ report.yellow.mo_df = avg_by_bucket(db[ViewOf("yellow")], "month_of_year")
    /\ \E r, q \in DOMAIN db[ViewOf("yellow")] :
          /\ r.month_of_year = q.month_of_year
          /\ IsNull(r.trip_co2_kgs)
          /\ ~IsNull(q.trip_co2_kgs)
    /\ Len(report.yellow.mo_df) = 1

\* the four average reports of analyze_cab and the field that holds the
\* lightest and heaviest bucket of each
BucketExtremes ==
    {<<"hour_df", "hour">>, <<"dow_df", "dow">>, <<"wk_df", "week">>, <<"mo_df", "month">>}

\* picked is (None, i.e. NoRow, for an empty frame and otherwise) the entry of
\* df that no entry is Better than and that has the smallest key among the
\* entries that are as good
IsFirstExtreme(picked, df, key, col, Better(_, _)) ==
    IF df = << >> THEN picked = NoRow
    ELSE /\ Len(picked) = 1
         /\ \E i \in DOMAIN df : df[i] = picked[1]
         /\ \A i \in DOMAIN df :
               /\ ~Better(df[i][col], picked[1][col])
               /\ ~Better(picked[1][col], df[i][col]) => picked[1][key] <= df[i][key]

\* C12: for every non-empty bucketed statistic (hour, weekday, week and
\* cyclical month averages, absolute year-month totals) the reported lightest
\* and heaviest buckets carry the minimum and the maximum of the statistic
\* over all buckets, and among tied buckets the one reported is the first in
\* ascending bucket order; heaviest_lightest_month_totals returns
\* (None, None) for an empty input.
C12_ExtremesAreFirstMinMax ==
    [][report' # report =>
          \A label \in CabLabels :
              ViewOf(label) \in DOMAIN db =>
                  LET rep == report'[label]
                  IN  /\ \A f \in BucketExtremes :
                            /\ IsFirstExtreme(rep[f[2]].light, rep[f[1]], "bucket", "avg_co2",
                                              LAMBDA a, b : LessAvg(a, b))
                            /\ IsFirstExtreme(rep[f[2]].heavy, rep[f[1]], "bucket", "avg_co2",
                                              LAMBDA a, b : LessAvg(b, a))
                      /\ IsFirstExtreme(rep.totals.light, rep.mt, "ym", "total_co2",
                                        LAMBDA a, b : a < b)
                      /\ IsFirstExtreme(rep.totals.heavy, rep.mt, "ym", "total_co2",
                                        LAMBDA a, b : a > b)]_vars

\* a report in which two hours tie for the lightest average below a heavier
\* third, and two months tie for the lightest total
C12_Witness ==
    /\ report.ran
    /\ ~report.yellow.missing
    /\ \E i, j, k \in DOMAIN report.yellow.hour_df :
          LET df == report.yellow.hour_df
          IN  /\ i < j
              /\ ~LessAvg(df[i].avg_co2, df[j].avg_co2)
              /\ ~LessAvg(df[j].avg_co2, df[i].avg_co2)
              /\ LessAvg(df[i].avg_co2, df[k].avg_co2)
              /\ report.yellow.hour.light = <<df[i]>>
    /\ \E i, j \in DOMAIN report.yellow.mt :
          /\ i < j
          /\ report.yellow.mt[i].total_co2 = report.yellow.mt[j].total_co2
          /\ report.yellow.totals.light = <<report.yellow.mt[i]>>

\* C13: filter idempotence: running clean_one a second time on the same
\* unchanged raw partition leaves the cleaned table with the same rows as
\* running it once.  Stated of every clean_one that finds the cleaned table
\* of an earlier run, the raw table being what it was then (under SpecClean
\* no step changes a raw table).
C13_CleanOneIsIdempotent ==
    [][(pc = "clean" /\ todo # << >> /\ table_exists(db, Head(todo).dst)) =>
          /\ table_exists(db', Head(todo).dst)
          /\ db'[Head(todo).dst] = db[Head(todo).dst]]_vars

\* in a second run of clean.main (the views of the first run exist),
\* clean_one has run again on a raw table that holds a duplicated valid row
\* and a row the filter rejects, and the cleaned table holds the one row
C13_Witness ==
    /\ pc = "clean"
    /\ done # << >>
    /\ table_exists(db, "all_trips_clean_2015_2024")
    /\ \E r \in DOMAIN db[done[1].src] : db[done[1].src][r] = 2 /\ clean_filter(r)
    /\ \E r \in DOMAIN db[done[1].src] : ~clean_filter(r)
    /\ BagCardinality(db[done[1].dst]) = 1

TransformedViews ==
    {"yellow_trips_transformed_all", "green_trips_transformed_all",
     "all_trips_transformed_2015_2024"}

\* a step leaves the three views of transform.py as they are
TransformedViewsUnchanged ==
    \A v \in TransformedViews :
        /\ table_exists(db', v) <=> table_exists(db, v)
        /\ table_exists(db, v) => db'[v] = db[v]

\* C14: within a run of transform.main, build_unions starts only after
\* transform_one has completed for every discovered cleaned partition, and
\* each union view it builds contains exactly the partitions enriched in that
\* run; if any transform_one fails, no union view is rebuilt in that run.
\* Stated of the steps of a run: the step that ends the run as complete
\* finds the worklist empty and every cleaned table enriched in this run, and
\* leaves each view it builds as the sum of the tables enriched in this run;
\* every other step of the run, the failing one included, leaves the views
\* as they are.
C14_UnionsAfterAllPartitions ==
    [][pc = "transform" =>
          IF pc' = "idle" /\ status'.transform = "complete"
          THEN /\ todo = << >>
               /\ {done[i] : i \in DOMAIN done}
                     = {TransformedOf(k) : k \in {q \in KeySet : table_exists(db, CleanOf(q))}}
               /\ \A i \in DOMAIN done :
                     table_exists(db, done[i]) /\ db'[done[i]] = db[done[i]]
               /\ \A cab \in CabLabels :
                     TransformedListOf(done, cab \o "_") # << >> =>
                         IsSumOf(cab \o "_trips_transformed_all",
                                 TransformedListOf(done, cab \o "_"), db')
               /\ IsSumOf("all_trips_transformed_2015_2024", done, db')
          ELSE TransformedViewsUnchanged]_vars

\* a run of transform.main has failed after an earlier run had built the
\* views from enriched tables of both cabs: the views are still there
C14_Witness ==
    /\ pc = "idle"
    /\ status.transform = "error"
    /\ \A v \in TransformedViews : table_exists(db, v)
    /\ db["all_trips_transformed_2015_2024"]
          = db["yellow_trips_transformed_all"] (+) db["green_trips_transformed_all"]
    /\ db["green_trips_transformed_all"] # EmptyBag

\* C15: whenever transform_one raises a fatal error (lookup table absent,
\* lookup without the co2_grams_per_mile column, or source cleaned table
\* absent), the destination enriched table is left exactly as it was before
\* the call: it is never dropped without being recreated.
C15_FailedTransformKeepsTable ==
    [][(pc = "transform" /\ status'.transform = "error") =>
          /\ table_exists(db', Head(todo).dst) <=> table_exists(db, Head(todo).dst)
          /\ table_exists(db, Head(todo).dst) => db'[Head(todo).dst] = db[Head(todo).dst]]_vars

\* the partitions whose enriched table is in a list of created tables, and
\* the partitions of a list of cleaned pairs
CreatedKeys(created) ==
    {k \in KeySet : \E i \in DOMAIN created : created[i] = TransformedOf(k)}
CleanedKeys(cleaned_pairs) ==
    {k \in KeySet : \E i \in DOMAIN cleaned_pairs : cleaned_pairs[i].dst = CleanOf(k)}

\* C16: after any sequence of runs in which raw partitions may appear and
\* disappear between runs, whenever clean.main and then transform.main both
\* complete without error, the partitions contributing to
\* all_trips_transformed_2015_2024 are the partitions contributing to
\* all_trips_clean_2015_2024, i.e. the raw partitions present at that run of
\* clean.main: no cleaned table left over from an earlier run is enriched
\* and consolidated.  Stated of the step that completes a run of
\* transform.main after a completed run of clean.main: the tables it
\* consolidates are those of the cleaned_pairs of that run of clean.main.
C16_NoLeftoverPartition ==
    [][(pc = "transform" /\ pc' = "idle" /\ status'.transform = "complete"
            /\ status.clean = "complete") =>
          CreatedKeys(done) = CleanedKeys(status.cleaned)]_vars

=============================================================================
